---- MODULE Spec2Model ----
(***************************************************************************)
(* Award-identifier matching and reconciliation                            *)
(* (src/utils/award_id_matcher.py, src/reconcile_grants_db.py).            *)
(*                                                                         *)
(* Text is a sequence of characters; a character is a one-element token.   *)
(* Characters outside ASCII carry a name ("eacute", "endash", ...).        *)
(* Floating-point scores are exact rationals [n |-> num, d |-> den] in     *)
(* lowest terms.                                                           *)
(***************************************************************************)
EXTENDS Integers, Sequences, FiniteSets, TLC

(***************************************************************************)
(* Characters                                                              *)
(***************************************************************************)
LowerSeq == <<"a","b","c","d","e","f","g","h","i","j","k","l","m",
              "n","o","p","q","r","s","t","u","v","w","x","y","z">>
UpperSeq == <<"A","B","C","D","E","F","G","H","I","J","K","L","M",
              "N","O","P","Q","R","S","T","U","V","W","X","Y","Z">>
DigitSeq == <<"0","1","2","3","4","5","6","7","8","9">>

Range(s) == {s[i] : i \in 1..Len(s)}

LowerSet == Range(LowerSeq)
UpperSet == Range(UpperSeq)
DigitSet == Range(DigitSeq)

\* The delimiter class of the split in extract_segments, [-_./\s]: the
\* whitespace members are kept apart because strip() removes only those.
WhitespaceSet == {" ", "\t", "\n", "\r"}
DelimiterSet == {"-", "_", ".", "/"} \cup WhitespaceSet

\* The four dash variants extract_segments rewrites to "-":
\* U+2010 hyphen, U+2013 en dash, U+2014 em dash, U+2212 minus sign.
DashVariants == {"hyphen2010", "endash", "emdash", "minus2212"}

\* ASCII punctuation that is neither a delimiter nor alphanumeric.
OtherAsciiSet == {"#", ":", "(", ")", ",", "+", "*", "&"}

IsAscii(c) ==
  c \in LowerSet \cup UpperSet \cup DigitSet \cup DelimiterSet \cup OtherAsciiSet

IndexOf(c, s) == CHOOSE i \in 1..Len(s) : s[i] = c

\* str.upper() on one ASCII character.
UpperChar(c) == IF c \in LowerSet THEN UpperSeq[IndexOf(c, LowerSeq)] ELSE c

\* unicodedata.normalize('NFKD', c) for one character: the compatibility
\* decomposition. ASCII and the dash variants decompose to themselves;
\* e-acute to "e" + combining acute; the no-break space to a space;
\* superscript two to "2".
NFKDChar(c) ==
  CASE c = "eacute" -> <<"e", "combacute">>
    [] c = "nbsp" -> <<" ">>
    [] c = "sup2" -> <<"2">>
    [] OTHER -> <<c>>

RECURSIVE FlatMap(_, _)
FlatMap(s, i) ==
  IF i > Len(s) THEN <<>> ELSE NFKDChar(s[i]) \o FlatMap(s, i + 1)

NFKD(s) == FlatMap(s, 1)

\* s.encode('ascii', 'ignore').decode('ascii')
IsAsciiChar(c) == IsAscii(c)
AsciiIgnore(s) == SelectSeq(s, IsAsciiChar)

IsAlnumChar(c) == c \in LowerSet \cup UpperSet \cup DigitSet
Upper(s) == [i \in 1..Len(s) |-> UpperChar(s[i])]

(***************************************************************************)
(* Absent values and Python string helpers                                 *)
(***************************************************************************)
\* Python's None: a value that is no text (its one token is no character).
None == <<"<None>">>

\* str(x) of a text is the text; str(None) is "None".
Str(x) == IF x = None THEN <<"N", "o", "n", "e">> ELSE x

\* `not x` for a text or None.
Falsy(x) == x = None \/ x = <<>>

RECURSIVE LStrip(_)
LStrip(s) ==
  IF s # <<>> /\ Head(s) \in WhitespaceSet THEN LStrip(Tail(s)) ELSE s

RECURSIVE RStrip(_)
RStrip(s) ==
  IF s # <<>> /\ s[Len(s)] \in WhitespaceSet
  THEN RStrip(SubSeq(s, 1, Len(s) - 1)) ELSE s

\* str.strip()
Strip(s) == RStrip(LStrip(s))

\* x in y for two texts (contiguous containment; "" is in everything).
Contains(y, x) ==
  \E k \in 0..(Len(y) - Len(x)) : SubSeq(y, k + 1, k + Len(x)) = x

StartsWith(s, p) == Len(p) <= Len(s) /\ SubSeq(s, 1, Len(p)) = p
EndsWith(s, p) ==
  Len(p) <= Len(s) /\ SubSeq(s, Len(s) - Len(p) + 1, Len(s)) = p

\* str.isdigit() on ASCII text.
IsDigitStr(s) == s # <<>> /\ \A i \in 1..Len(s) : s[i] \in DigitSet

DigitVal(c) == IndexOf(c, DigitSeq) - 1

\* int(s) for a digit string.
RECURSIVE IntOf(_)
IntOf(s) ==
  IF s = <<>> THEN 0
  ELSE 10 * IntOf(SubSeq(s, 1, Len(s) - 1)) + DigitVal(s[Len(s)])

\* s.lstrip('0')
RECURSIVE LStripZeros(_)
LStripZeros(s) ==
  IF s # <<>> /\ Head(s) = "0" THEN LStripZeros(Tail(s)) ELSE s

Max2(x, y) == IF x >= y THEN x ELSE y
Min2(x, y) == IF x <= y THEN x ELSE y
Abs(x) == IF x >= 0 THEN x ELSE -x

(***************************************************************************)
(* normalize_award_id                                                      *)
(***************************************************************************)
\* Mutant: the substitution of line 13 removes only the first character
\* that is not alphanumeric (re.sub with count=1).
RECURSIVE DropFirstNonAlnum(_)
DropFirstNonAlnum(s) ==
  IF s = <<>> THEN <<>>
  ELSE IF ~IsAlnumChar(Head(s)) THEN Tail(s)
  ELSE <<Head(s)>> \o DropFirstNonAlnum(Tail(s))

normalize_award_id_first_only(award_id) ==
  IF Falsy(award_id) THEN <<>>
  ELSE Upper(DropFirstNonAlnum(AsciiIgnore(NFKD(Str(award_id)))))

normalize_award_id(award_id) ==
  IF Falsy(award_id) THEN <<>>
  ELSE Upper(SelectSeq(AsciiIgnore(NFKD(Str(award_id))), IsAlnumChar))

(***************************************************************************)
(* extract_segments                                                        *)
(***************************************************************************)
ReplaceDashes(s) ==
  [i \in 1..Len(s) |-> IF s[i] \in DashVariants THEN "-" ELSE s[i]]

\* re.split(r'[-_./\s]+', s) followed by dropping the empty pieces: the
\* maximal runs of non-delimiter characters, in order.
RECURSIVE SplitRuns(_, _, _)
SplitRuns(s, i, cur) ==
  IF i > Len(s)
  THEN IF cur = <<>> THEN <<>> ELSE <<cur>>
  ELSE IF s[i] \in DelimiterSet
       THEN (IF cur = <<>> THEN <<>> ELSE <<cur>>) \o SplitRuns(s, i + 1, <<>>)
       ELSE SplitRuns(s, i + 1, Append(cur, s[i]))

extract_segments(award_id) ==
  IF Falsy(award_id) THEN <<>>
  ELSE LET clean == ReplaceDashes(Str(award_id))
           ascii == AsciiIgnore(NFKD(clean))
           segs == SplitRuns(Strip(ascii), 1, <<>>)
       IN [i \in 1..Len(segs) |-> Upper(segs[i])]

(***************************************************************************)
(* Exact rationals for the floating-point scores                           *)
(***************************************************************************)
RECURSIVE GCD(_, _)
GCD(x, y) == IF y = 0 THEN x ELSE GCD(y, x % y)

\* n / d for n >= 0, d > 0, in lowest terms.
Frac(n, d) == LET g == GCD(n, d) IN [n |-> n \div g, d |-> d \div g]

FracLeq(x, y) == x.n * y.d <= y.n * x.d
FracLt(x, y) == x.n * y.d < y.n * x.d
FracMax(x, y) == IF FracLeq(y, x) THEN x ELSE y
FracMin(x, y) == IF FracLeq(x, y) THEN x ELSE y
FracAdd(x, y) == Frac(x.n * y.d + y.n * x.d, x.d * y.d)

\* max(scores) for a non-empty list of scores.
RECURSIVE FracMaxSeq(_)
FracMaxSeq(scores) ==
  IF Len(scores) = 1 THEN scores[1]
  ELSE FracMax(scores[1], FracMaxSeq(Tail(scores)))

(***************************************************************************)
(* are_segments_compatible                                                 *)
(***************************************************************************)
\* re.findall(r'\d+', seg): the maximal digit runs, in order.
RECURSIVE DigitRuns(_, _, _)
DigitRuns(s, i, cur) ==
  IF i > Len(s)
  THEN IF cur = <<>> THEN <<>> ELSE <<cur>>
  ELSE IF s[i] \in DigitSet
       THEN DigitRuns(s, i + 1, Append(cur, s[i]))
       ELSE (IF cur = <<>> THEN <<>> ELSE <<cur>>) \o DigitRuns(s, i + 1, <<>>)

FindDigitRuns(seg) == DigitRuns(seg, 1, <<>>)

IsNotDigitChar(c) == c \notin DigitSet

\* re.sub(r'\d', '', seg)
StripDigits(seg) == SelectSeq(seg, IsNotDigitChar)

\* Mutant: the elif branch of lines 47-49 is missing, so the year rule
\* applies only with the 4-digit segment first.
NumericCompatible_one_sided(seg1, seg2) ==
  \/ IntOf(seg1) = IntOf(seg2)
  \/ LStripZeros(seg1) = LStripZeros(seg2)
  \/ Len(seg1) = 4 /\ Len(seg2) = 2 /\ EndsWith(seg1, seg2)

\* Lines 37-51: both segments purely numeric.
NumericCompatible(seg1, seg2) ==
  \/ IntOf(seg1) = IntOf(seg2)
  \/ LStripZeros(seg1) = LStripZeros(seg2)
  \/ Len(seg1) = 4 /\ Len(seg2) = 2 /\ EndsWith(seg1, seg2)
  \/ ~(Len(seg1) = 4 /\ Len(seg2) = 2)
       /\ Len(seg2) = 4 /\ Len(seg1) = 2 /\ EndsWith(seg2, seg1)

\* Lines 56-64: one is a prefix of the other and the digit runs, zipped,
\* are equal as integers.
PrefixCompatible(seg1, seg2) ==
  /\ StartsWith(seg1, seg2) \/ StartsWith(seg2, seg1)
  /\ LET n1 == FindDigitRuns(seg1)
         n2 == FindDigitRuns(seg2)
     IN /\ n1 # <<>>
        /\ n2 # <<>>
        /\ \A k \in 1..Min2(Len(n1), Len(n2)) : IntOf(n1[k]) = IntOf(n2[k])

\* Lines 69-79, given equal alphabetic cores: FALSE only when both have
\* digit runs and the first runs differ as text and as integers.
AlphaCoreCompatible(seg1, seg2) ==
  LET n1 == FindDigitRuns(seg1)
      n2 == FindDigitRuns(seg2)
  IN ~(/\ n1 # <<>>
       /\ n2 # <<>>
       /\ n1[1] # n2[1]
       /\ IntOf(n1[1]) # IntOf(n2[1]))

are_segments_compatible(seg1, seg2) ==
  IF seg1 = seg2 THEN TRUE
  ELSE IF IsDigitStr(seg1) /\ IsDigitStr(seg2)
       THEN NumericCompatible(seg1, seg2)
  ELSE IF IsDigitStr(seg1) # IsDigitStr(seg2) THEN FALSE
  ELSE IF PrefixCompatible(seg1, seg2) THEN TRUE
  ELSE IF StripDigits(seg1) = StripDigits(seg2)
       THEN AlphaCoreCompatible(seg1, seg2)
  ELSE Contains(seg2, seg1) \/ Contains(seg1, seg2)

\* str.isdigit() on any text: the superscript digits count as digits.
PyIsDigit(s) ==
  s # <<>> /\ \A k \in 1..Len(s) : s[k] \in DigitSet \cup {"sup2"}

\* are_segments_compatible called on any two values, with the exceptions
\* it lets escape: None has no isdigit (lines 37 and 53), and int() of
\* line 38 rejects a text that isdigit() accepts but that is not made of
\* decimal digits. The digit scans of lines 57-75 (\d) match decimal
\* digits only.
are_segments_compatible_outcome(seg1, seg2) ==
  IF seg1 = seg2 THEN [value |-> TRUE]
  ELSE IF seg1 = None \/ seg2 = None THEN [raised |-> "AttributeError"]
  ELSE IF PyIsDigit(seg1) /\ PyIsDigit(seg2)
       THEN IF IsDigitStr(seg1) /\ IsDigitStr(seg2)
            THEN [value |-> NumericCompatible(seg1, seg2)]
            ELSE [raised |-> "ValueError"]
  ELSE IF PyIsDigit(seg1) # PyIsDigit(seg2) THEN [value |-> FALSE]
  ELSE [value |-> are_segments_compatible(seg1, seg2)]

(***************************************************************************)
(* structured_match                                                        *)
(***************************************************************************)
\* Segment-count tolerance (line 95) and the confidence cutoff 0.75
\* (line 115).
SegmentDiffTolerance == 2
\* Mutant: line 115 compares with 0.8.
ConfidenceCutoff_four_fifths == Frac(4, 5)

ConfidenceCutoff == Frac(3, 4)

\* Mutant: the boundary test of line 110 without `i == 0`.
RECURSIVE AlignFrom_no_first(_, _, _, _)
AlignFrom_no_first(segments1, segments2, i, matched) ==
  LET total == Max2(Len(segments1), Len(segments2))
  IN IF i >= Min2(Len(segments1), Len(segments2))
     THEN LET confidence == Frac(matched, total)
          IN [is_match |-> FracLeq(ConfidenceCutoff, confidence),
              confidence |-> confidence]
     ELSE IF are_segments_compatible(segments1[i + 1], segments2[i + 1])
          THEN AlignFrom_no_first(segments1, segments2, i + 1, matched + 1)
          ELSE IF /\ IsDigitStr(segments1[i + 1])
                  /\ IsDigitStr(segments2[i + 1])
                  /\ \/ i = Len(segments1) - 1
                     \/ i = Len(segments2) - 1
               THEN [is_match |-> FALSE, confidence |-> Frac(matched, total)]
               ELSE AlignFrom_no_first(segments1, segments2, i + 1, matched)

\* Mutant: line 110 without its position test, so a numeric mismatch at
\* any aligned position returns no match.
RECURSIVE AlignFrom_any_position(_, _, _, _)
AlignFrom_any_position(segments1, segments2, i, matched) ==
  LET total == Max2(Len(segments1), Len(segments2))
  IN IF i >= Min2(Len(segments1), Len(segments2))
     THEN LET confidence == Frac(matched, total)
          IN [is_match |-> FracLeq(ConfidenceCutoff, confidence),
              confidence |-> confidence]
     ELSE IF are_segments_compatible(segments1[i + 1], segments2[i + 1])
          THEN AlignFrom_any_position(segments1, segments2, i + 1, matched + 1)
          ELSE IF /\ IsDigitStr(segments1[i + 1])
                  /\ IsDigitStr(segments2[i + 1])
               THEN [is_match |-> FALSE, confidence |-> Frac(matched, total)]
               ELSE AlignFrom_any_position(segments1, segments2, i + 1, matched)

\* The loop of lines 102-112 from index i (0-based) with `matched`
\* compatible pairs counted so far.
RECURSIVE AlignFrom(_, _, _, _)
AlignFrom(segments1, segments2, i, matched) ==
  LET total == Max2(Len(segments1), Len(segments2))
  IN IF i >= Min2(Len(segments1), Len(segments2))
     THEN LET confidence == Frac(matched, total)
          IN [is_match |-> FracLeq(ConfidenceCutoff, confidence),
              confidence |-> confidence]
     ELSE IF are_segments_compatible(segments1[i + 1], segments2[i + 1])
          THEN AlignFrom(segments1, segments2, i + 1, matched + 1)
          ELSE IF /\ IsDigitStr(segments1[i + 1])
                  /\ IsDigitStr(segments2[i + 1])
                  /\ \/ i = 0
                     \/ i = Len(segments1) - 1
                     \/ i = Len(segments2) - 1
               THEN [is_match |-> FALSE, confidence |-> Frac(matched, total)]
               ELSE AlignFrom(segments1, segments2, i + 1, matched)

structured_match(id1, id2) ==
  LET segments1 == extract_segments(id1)
      segments2 == extract_segments(id2)
  IN IF segments1 = <<>> \/ segments2 = <<>>
     THEN [is_match |-> FALSE, confidence |-> Frac(0, 1)]
     ELSE IF Abs(Len(segments1) - Len(segments2)) > SegmentDiffTolerance
          THEN [is_match |-> FALSE, confidence |-> Frac(0, 1)]
          ELSE AlignFrom(segments1, segments2, 0, 0)

(***************************************************************************)
(* levenshtein_distance                                                    *)
(***************************************************************************)
\* Mutant: a substitution always costs 1 (line 134 without `c1 != c2`).
RECURSIVE LevRow_always_substitute(_, _, _, _, _)
LevRow_always_substitute(previous_row, c1, s2, j, current_row) ==
  IF j >= Len(s2) THEN current_row
  ELSE LET insertions == previous_row[j + 2] + 1
           deletions == current_row[j + 1] + 1
           substitutions == previous_row[j + 1] + 1
       IN LevRow_always_substitute(previous_row, c1, s2, j + 1,
            Append(current_row, Min2(insertions, Min2(deletions, substitutions))))

\* The inner loop of lines 130-135: extends current_row for s2[j+1..].
RECURSIVE LevRow(_, _, _, _, _)
LevRow(previous_row, c1, s2, j, current_row) ==
  IF j >= Len(s2) THEN current_row
  ELSE LET insertions == previous_row[j + 2] + 1
           deletions == current_row[j + 1] + 1
           substitutions == previous_row[j + 1] + (IF c1 # s2[j + 1] THEN 1 ELSE 0)
       IN LevRow(previous_row, c1, s2, j + 1,
                 Append(current_row, Min2(insertions, Min2(deletions, substitutions))))

\* The outer loop of lines 128-136 from index i (0-based).
RECURSIVE LevRows(_, _, _, _)
LevRows(s1, s2, i, previous_row) ==
  IF i >= Len(s1) THEN previous_row
  ELSE LevRows(s1, s2, i + 1, LevRow(previous_row, s1[i + 1], s2, 0, <<i + 1>>))

RECURSIVE levenshtein_distance(_, _)
levenshtein_distance(s1, s2) ==
  IF Len(s1) < Len(s2) THEN levenshtein_distance(s2, s1)
  ELSE IF Len(s2) = 0 THEN Len(s1)
  ELSE LET last == LevRows(s1, s2, 0, [k \in 1..(Len(s2) + 1) |-> k - 1])
       IN last[Len(last)]

(***************************************************************************)
(* calculate_similarity_ratio (difflib.SequenceMatcher(None, s1, s2))      *)
(***************************************************************************)
\* Length of the common run starting at a[i], b[j] (0-based) inside the
\* windows a[i:ahi], b[j:bhi].
RECURSIVE RunLen(_, _, _, _, _, _)
RunLen(a, i, ahi, b, j, bhi) ==
  IF i < ahi /\ j < bhi /\ a[i + 1] = b[j + 1]
  THEN 1 + RunLen(a, i + 1, ahi, b, j + 1, bhi)
  ELSE 0

\* SequenceMatcher.find_longest_match without junk: the longest block
\* a[i:i+k] = b[j:j+k] in the windows; of the longest, the one starting
\* earliest in a, and of those the one starting earliest in b.
find_longest_match(a, alo, ahi, b, blo, bhi) ==
  LET Blocks == (alo..(ahi - 1)) \X (blo..(bhi - 1))
      K == [p \in Blocks |-> RunLen(a, p[1], ahi, b, p[2], bhi)]
      sizes == {K[p] : p \in Blocks}
      k == CHOOSE x \in sizes : \A y \in sizes : y <= x
      starts == {p[1] : p \in {q \in Blocks : K[q] = k}}
      i == CHOOSE x \in starts : \A y \in starts : x <= y
      others == {p[2] : p \in {q \in Blocks : K[q] = k /\ q[1] = i}}
      j == CHOOSE x \in others : \A y \in others : x <= y
  IN IF Blocks = {} THEN <<alo, blo, 0>>
     ELSE IF k = 0 THEN <<alo, blo, 0>>
     ELSE <<i, j, k>>

\* SequenceMatcher.get_matching_blocks: total size of the blocks found by
\* recursing to the left and to the right of the longest match.
RECURSIVE MatchedSize(_, _, _, _, _, _)
MatchedSize(a, alo, ahi, b, blo, bhi) ==
  LET m == find_longest_match(a, alo, ahi, b, blo, bhi)
      i == m[1]
      j == m[2]
      k == m[3]
  IN IF k = 0 THEN 0
     ELSE k
          + (IF alo < i /\ blo < j THEN MatchedSize(a, alo, i, b, blo, j) ELSE 0)
          + (IF i + k < ahi /\ j + k < bhi
             THEN MatchedSize(a, i + k, ahi, b, j + k, bhi) ELSE 0)

\* SequenceMatcher.ratio(): 2.0 * matches / (len(a) + len(b)).
calculate_similarity_ratio(s1, s2) ==
  IF Falsy(s1) \/ Falsy(s2) THEN Frac(0, 1)
  ELSE Frac(2 * MatchedSize(s1, 0, Len(s1), s2, 0, Len(s2)), Len(s1) + Len(s2))

(***************************************************************************)
(* longest_common_substring_length                                         *)
(***************************************************************************)
\* dp[i][j] of lines 159-167: the longest common suffix of s1[:i], s2[:j].
RECURSIVE LcsDp(_, _, _, _)
LcsDp(s1, s2, i, j) ==
  IF i = 0 \/ j = 0 THEN 0
  ELSE IF s1[i] = s2[j] THEN LcsDp(s1, s2, i - 1, j - 1) + 1
  ELSE 0

longest_common_substring_length(s1, s2) ==
  IF Falsy(s1) \/ Falsy(s2) THEN 0
  ELSE LET cells == {LcsDp(s1, s2, i, j) : i \in 0..Len(s1), j \in 0..Len(s2)}
       IN CHOOSE r \in cells : \A c \in cells : c <= r

(***************************************************************************)
(* get_similarity_score                                                    *)
(***************************************************************************)
\* sum(1 for seg in segments if seg.isdigit())
NumericSegmentCount(segments) ==
  Cardinality({i \in 1..Len(segments) : IsDigitStr(segments[i])})

\* Lines 322-325: max(0.9, min(len) / max(len)) when one normalized form
\* contains the other; both empty cannot happen here (they would be equal).
ContainmentScores(id1_norm, id2_norm) ==
  IF Contains(id2_norm, id1_norm) \/ Contains(id1_norm, id2_norm)
  THEN <<FracMax(Frac(9, 10),
                 Frac(Min2(Len(id1_norm), Len(id2_norm)),
                      Max2(Len(id1_norm), Len(id2_norm))))>>
  ELSE <<>>

\* Mutant: the edit distance is divided by the shorter length.
EditScore_min_len(s1, s2) ==
  LET min_len == Min2(Len(s1), Len(s2))
  IN Frac(min_len - levenshtein_distance(s1, s2), min_len)

\* Lines 330-334: 1.0 - edit_dist / max_len.
EditScore(s1, s2) ==
  LET max_len == Max2(Len(s1), Len(s2))
  IN Frac(max_len - levenshtein_distance(s1, s2), max_len)

EditScores(id1_norm, id2_norm) ==
  IF id1_norm # <<>> /\ id2_norm # <<>>
  THEN <<EditScore(id1_norm, id2_norm)>>
  ELSE <<>>

\* Lines 336-340: lcs_len / ((len1 + len2) / 2).
LcsScores(id1_norm, id2_norm) ==
  IF id1_norm # <<>> /\ id2_norm # <<>>
  THEN <<Frac(2 * longest_common_substring_length(id1_norm, id2_norm),
              Len(id1_norm) + Len(id2_norm))>>
  ELSE <<>>

\* The list `scores` of lines 320-340, in the order it is appended to.
SignalScores(id1_norm, id2_norm) ==
  ContainmentScores(id1_norm, id2_norm)
    \o <<calculate_similarity_ratio(id1_norm, id2_norm)>>
    \o EditScores(id1_norm, id2_norm)
    \o LcsScores(id1_norm, id2_norm)

get_similarity_score(id1, id2) ==
  IF id1 = None \/ id2 = None
  THEN IF id1 = None /\ id2 = None THEN Frac(1, 1) ELSE Frac(0, 1)
  ELSE LET id1_str == Strip(Str(id1))
           id2_str == Strip(Str(id2))
           id1_norm == normalize_award_id(id1_str)
           id2_norm == normalize_award_id(id2_str)
           structured_confidence == structured_match(id1_str, id2_str).confidence
           scores == SignalScores(id1_norm, id2_norm)
           max_score == IF scores # <<>> THEN FracMaxSeq(scores) ELSE Frac(0, 1)
       IN IF id1_str = id2_str THEN Frac(1, 1)
          ELSE IF id1_norm = id2_norm THEN Frac(19, 20)
          ELSE IF /\ NumericSegmentCount(extract_segments(id1_str)) >= 2
                  /\ NumericSegmentCount(extract_segments(id2_str)) >= 2
               THEN structured_confidence
          ELSE IF FracLt(Frac(0, 1), structured_confidence)
               THEN FracMin(max_score, FracAdd(structured_confidence, Frac(1, 10)))
          ELSE max_score

(***************************************************************************)
(* is_fuzzy_match, check_substring_match, check_normalized_match           *)
(***************************************************************************)
HasDigit(s) == \E i \in 1..Len(s) : s[i] \in DigitSet

\* threshold is the default 0.90: match_award_ids never passes another.
is_fuzzy_match(s1, s2) ==
  LET s1_norm == normalize_award_id(s1)
      s2_norm == normalize_award_id(s2)
      sm == structured_match(s1, s2)
      similarity_ratio == calculate_similarity_ratio(s1_norm, s2_norm)
  IN IF Falsy(s1) \/ Falsy(s2) THEN FALSE
     ELSE IF s1 = s2 THEN TRUE
     ELSE IF s1_norm = s2_norm THEN TRUE
     ELSE IF Contains(s2_norm, s1_norm) \/ Contains(s1_norm, s2_norm) THEN TRUE
     ELSE IF sm.is_match THEN TRUE
     ELSE IF FracLt(sm.confidence, Frac(1, 2)) THEN FALSE
     ELSE IF /\ NumericSegmentCount(extract_segments(s1)) >= 2
             /\ NumericSegmentCount(extract_segments(s2)) >= 2
          THEN FALSE
     ELSE IF Min2(Len(s1_norm), Len(s2_norm)) <= 3 THEN s1_norm = s2_norm
     ELSE IF HasDigit(s1_norm) /\ HasDigit(s2_norm)
          THEN FracLeq(Frac(19, 20), similarity_ratio)
     ELSE FracLeq(Frac(9, 10), similarity_ratio)

\* Mutant: only the raw containment of line 248, without lines 251-254.
check_substring_match_raw_only(id1, id2) ==
  IF Falsy(id1) \/ Falsy(id2) THEN FALSE
  ELSE LET id1_str == Strip(Str(id1))
           id2_str == Strip(Str(id2))
       IN Contains(id2_str, id1_str) \/ Contains(id1_str, id2_str)

check_substring_match(id1, id2) ==
  IF Falsy(id1) \/ Falsy(id2) THEN FALSE
  ELSE LET id1_str == Strip(Str(id1))
           id2_str == Strip(Str(id2))
           id1_norm == normalize_award_id(id1_str)
           id2_norm == normalize_award_id(id2_str)
       IN \/ Contains(id2_str, id1_str)
          \/ Contains(id1_str, id2_str)
          \/ Contains(id2_norm, id1_norm)
          \/ Contains(id1_norm, id2_norm)

check_normalized_match(id1, id2) ==
  IF Falsy(id1) \/ Falsy(id2) THEN FALSE
  ELSE normalize_award_id(id1) = normalize_award_id(id2)

(***************************************************************************)
(* match_award_ids, get_match_type, awards_match                           *)
(***************************************************************************)
MatchTypes == {"substring", "normalized", "fuzzy"}
DefaultMatchTypes == {"substring", "normalized", "fuzzy"}

\* Mutant: lines 268-271 return (False, None) as soon as either
\* identifier is absent.
match_award_ids_absent_never_matches(id1, id2, match_types) ==
  IF id1 = None \/ id2 = None
  THEN [matched |-> FALSE, match_type |-> "none"]
  ELSE LET id1_str == Strip(Str(id1))
           id2_str == Strip(Str(id2))
       IN IF id1_str = id2_str
          THEN [matched |-> TRUE, match_type |-> "exact"]
          ELSE IF "substring" \in match_types /\ check_substring_match(id1_str, id2_str)
               THEN [matched |-> TRUE, match_type |-> "substring"]
          ELSE IF "normalized" \in match_types /\ check_normalized_match(id1_str, id2_str)
               THEN [matched |-> TRUE, match_type |-> "normalized"]
          ELSE IF "fuzzy" \in match_types /\ is_fuzzy_match(id1_str, id2_str)
               THEN [matched |-> TRUE, match_type |-> "fuzzy"]
          ELSE [matched |-> FALSE, match_type |-> "none"]

\* Mutant: line 285 tries is_fuzzy_match whatever match_types holds.
match_award_ids_fuzzy_always(id1, id2, match_types) ==
  IF id1 = None \/ id2 = None
  THEN IF id1 = None /\ id2 = None
       THEN [matched |-> TRUE, match_type |-> "exact"]
       ELSE [matched |-> FALSE, match_type |-> "none"]
  ELSE LET id1_str == Strip(Str(id1))
           id2_str == Strip(Str(id2))
       IN IF id1_str = id2_str
          THEN [matched |-> TRUE, match_type |-> "exact"]
          ELSE IF "substring" \in match_types /\ check_substring_match(id1_str, id2_str)
               THEN [matched |-> TRUE, match_type |-> "substring"]
          ELSE IF "normalized" \in match_types /\ check_normalized_match(id1_str, id2_str)
               THEN [matched |-> TRUE, match_type |-> "normalized"]
          ELSE IF is_fuzzy_match(id1_str, id2_str)
               THEN [matched |-> TRUE, match_type |-> "fuzzy"]
          ELSE [matched |-> FALSE, match_type |-> "none"]

\* The returned pair (match_found, match_type); a match_type of None is
\* the string "none".
match_award_ids(id1, id2, match_types) ==
  IF id1 = None \/ id2 = None
  THEN IF id1 = None /\ id2 = None
       THEN [matched |-> TRUE, match_type |-> "exact"]
       ELSE [matched |-> FALSE, match_type |-> "none"]
  ELSE LET id1_str == Strip(Str(id1))
           id2_str == Strip(Str(id2))
       IN IF id1_str = id2_str
          THEN [matched |-> TRUE, match_type |-> "exact"]
          ELSE IF "substring" \in match_types /\ check_substring_match(id1_str, id2_str)
               THEN [matched |-> TRUE, match_type |-> "substring"]
          ELSE IF "normalized" \in match_types /\ check_normalized_match(id1_str, id2_str)
               THEN [matched |-> TRUE, match_type |-> "normalized"]
          ELSE IF "fuzzy" \in match_types /\ is_fuzzy_match(id1_str, id2_str)
               THEN [matched |-> TRUE, match_type |-> "fuzzy"]
          ELSE [matched |-> FALSE, match_type |-> "none"]

get_match_type(id1, id2, match_types) ==
  match_award_ids(id1, id2, match_types).match_type

awards_match(id1, id2, match_types) ==
  match_award_ids(id1, id2, match_types).matched

(***************************************************************************)
(* State                                                                   *)
(***************************************************************************)
VARIABLES
  pc,        \* position of the run: "input", then the operation applied
  arg1, arg2,  \* the arguments of the operation under test
  types,     \* match_types handed to match_award_ids
  out,       \* the value the operation returned
  \* query_database
  input_df,  \* rows of the funder-supplied file: [doi, award_id]
  grants,    \* rows of the grants table: [work_id, doi, award_id, funder]
  results,   \* the categories written by the SQL statements
  \* unified_award_id_matching
  oa_grants_df,          \* award_id column of the bibliographic rows
  input_with_doi_df,     \* award_id values of funder rows with a DOI
  input_without_doi_df,  \* award_id values of funder rows without a DOI
  oa_awards,             \* unique non-null bibliographic award ids, in order
  all_input_awards,      \* unique non-null funder award ids
  indexed,               \* funder award ids the index loop has processed
  input_index,           \* segment -> set of funder award ids
  pos,                   \* position of the lookup loop in oa_awards
  candidates,            \* candidates of oa_awards[pos] not yet examined
  oa_to_input_matches,   \* bibliographic award id -> funder award id
  matched_count,
  overlap_rows           \* the returned rows, one per row of oa_grants_df

fnVars == <<arg1, arg2, types, out>>
queryVars == <<input_df, grants, results>>
passVars ==
  <<oa_grants_df, input_with_doi_df, input_without_doi_df, oa_awards,
    all_input_awards, indexed, input_index, pos, candidates,
    oa_to_input_matches, matched_count, overlap_rows>>

vars == <<pc, fnVars, queryVars, passVars>>

NoResult == [none |-> TRUE]

(***************************************************************************)
(* Input domains                                                           *)
(***************************************************************************)
RECURSIVE StringsOfLen(_, _)
StringsOfLen(chars, n) ==
  IF n = 0 THEN {<<>>}
  ELSE {Append(s, c) : s \in StringsOfLen(chars, n - 1), c \in chars}

StringsUpTo(chars, n) == UNION {StringsOfLen(chars, k) : k \in 0..n}

\* normalize_award_id: any text, with letters of both cases, digits,
\* delimiters, other punctuation and non-ASCII characters, or None.
MaxNormLen == 3
NormChars == {"a", "B", "7", "-", " ", "#", "eacute", "endash"}
NormInputs == StringsUpTo(NormChars, MaxNormLen) \cup {None}

\* are_segments_compatible: segments as extract_segments yields them
\* (non-empty, upper case, no delimiter).
MaxSegLen == 4
SegChars == {"0", "7", "A"}
SegInputs == StringsUpTo(SegChars, MaxSegLen) \ {<<>>}

\* structured_match: identifiers of up to MaxSegs tokens joined by "-".
MaxSegs == 4
StructTokens == {<<"1">>, <<"2">>, <<"A">>}

RECURSIVE JoinedOfLen(_)
JoinedOfLen(n) ==
  IF n = 1 THEN StructTokens
  ELSE {s \o <<"-">> \o tok : s \in JoinedOfLen(n - 1), tok \in StructTokens}

StructInputs == UNION {JoinedOfLen(k) : k \in 1..MaxSegs}

\* extract_segments of every structured_match input.
StructSegments == [a \in StructInputs |-> extract_segments(a)]

\* levenshtein_distance and the edit-distance score.
MaxEditLen == 4
EditChars == {"a", "B", "1"}
EditInputs == StringsUpTo(EditChars, MaxEditLen)

\* get_similarity_score.
MaxScoreLen == 3
ScoreChars == {"A", "b", "1", "-"}
ScoreInputs == StringsUpTo(ScoreChars, MaxScoreLen) \cup {None}

\* get_similarity_score on identifiers made of segments: up to
\* MaxScoreSegs tokens joined by "-", a token alone after a blank, the
\* empty text and None.
MaxScoreSegs == 2
ScoreTokens == {<<"1">>, <<"7">>, <<"0", "7">>, <<"A">>, <<"a">>}

RECURSIVE JoinedTokens(_, _)
JoinedTokens(tokens, n) ==
  IF n = 1 THEN tokens
  ELSE {s \o <<"-">> \o tok : s \in JoinedTokens(tokens, n - 1), tok \in tokens}

SegmentedScoreInputs ==
  UNION {JoinedTokens(ScoreTokens, k) : k \in 1..MaxScoreSegs}
    \cup {<<" ">> \o tok : tok \in ScoreTokens}
    \cup {<<>>, None}

\* are_segments_compatible called directly: any short text, ASCII or
\* not, or None.
MaxAnyLen == 2
AnyChars == {"1", "0", "A", "-", " ", "sup2"}
AnyInputs == StringsUpTo(AnyChars, MaxAnyLen) \cup {None}

\* match_award_ids.
MaxClassifyLen == 2
ClassifyChars == {"A", "a", "1", "-", " "}
ClassifyInputs == StringsUpTo(ClassifyChars, MaxClassifyLen) \cup {None}

(***************************************************************************)
(* Operations on one or two identifiers                                    *)
(***************************************************************************)
\* The variables of an operation that is not under test.
IdleFn ==
  /\ arg1 = <<>>
  /\ arg2 = <<>>
  /\ types = {}
  /\ out = NoResult

IdleQuery ==
  /\ input_df = {}
  /\ grants = {}
  /\ results = NoResult

IdlePass ==
  /\ oa_grants_df = <<>>
  /\ input_with_doi_df = {}
  /\ input_without_doi_df = {}
  /\ oa_awards = <<>>
  /\ all_input_awards = {}
  /\ indexed = {}
  /\ input_index = <<>>
  /\ pos = 0
  /\ candidates = {}
  /\ oa_to_input_matches = <<>>
  /\ matched_count = 0
  /\ overlap_rows = <<>>

InitFn(S1, S2) ==
  /\ pc = "input"
  /\ arg1 \in S1
  /\ arg2 \in S2
  /\ types = {}
  /\ out = NoResult
  /\ IdleQuery
  /\ IdlePass

\* normalize_award_id(arg1)
Normalize ==
  /\ pc = "input"
  /\ pc' = "normalized"
  /\ out' = [value |-> normalize_award_id(arg1)]
  /\ UNCHANGED <<arg1, arg2, types, queryVars, passVars>>

\* normalize_award_id applied to its own result
Renormalize ==
  /\ pc = "normalized"
  /\ pc' = "renormalized"
  /\ out' = [value |-> out.value, again |-> normalize_award_id(out.value)]
  /\ UNCHANGED <<arg1, arg2, types, queryVars, passVars>>

\* are_segments_compatible(arg1, arg2)
Compatible ==
  /\ pc = "input"
  /\ pc' = "compatible"
  /\ out' = [value |-> are_segments_compatible(arg1, arg2)]
  /\ UNCHANGED <<arg1, arg2, types, queryVars, passVars>>

\* structured_match(arg1, arg2)
StructuredMatch ==
  /\ pc = "input"
  /\ pc' = "structured"
  /\ out' = structured_match(arg1, arg2)
  /\ UNCHANGED <<arg1, arg2, types, queryVars, passVars>>

\* get_similarity_score(arg1, arg2)
Similarity ==
  /\ pc = "input"
  /\ pc' = "scored"
  /\ out' = [score |-> get_similarity_score(arg1, arg2)]
  /\ UNCHANGED <<arg1, arg2, types, queryVars, passVars>>

\* Lines 330-334 of get_similarity_score on the normalized forms:
\* levenshtein_distance and the edit-distance score made from it.
EditDistance ==
  /\ pc = "input"
  /\ pc' = "edit"
  /\ LET id1_norm == normalize_award_id(Strip(arg1))
         id2_norm == normalize_award_id(Strip(arg2))
     IN out' = [dist |-> levenshtein_distance(id1_norm, id2_norm),
                scores |-> EditScores(id1_norm, id2_norm)]
  /\ UNCHANGED <<arg1, arg2, types, queryVars, passVars>>

\* are_segments_compatible(arg1, arg2) on any two values: the value
\* returned or the exception raised.
CompatibleAny ==
  /\ pc = "input"
  /\ pc' = "compatible_any"
  /\ out' = are_segments_compatible_outcome(arg1, arg2)
  /\ UNCHANGED <<arg1, arg2, types, queryVars, passVars>>

\* match_award_ids(arg1, arg2, match_types)
Classify ==
  /\ pc = "input"
  /\ \E mt \in SUBSET MatchTypes :
       /\ types' = mt
       /\ out' = match_award_ids(arg1, arg2, mt)
  /\ pc' = "classified"
  /\ UNCHANGED <<arg1, arg2, queryVars, passVars>>

InitNormalize == InitFn(NormInputs, {<<>>})
NextNormalize == Normalize \/ Renormalize
SpecNormalize == InitNormalize /\ [][NextNormalize]_vars

InitSegments == InitFn(SegInputs, SegInputs)
NextSegments == Compatible
SpecSegments == InitSegments /\ [][NextSegments]_vars

InitStructured == InitFn(StructInputs, StructInputs)
NextStructured == StructuredMatch
SpecStructured == InitStructured /\ [][NextStructured]_vars

InitScore == InitFn(ScoreInputs, ScoreInputs)
NextScore == Similarity
SpecScore == InitScore /\ [][NextScore]_vars

InitSegmentedScore == InitFn(SegmentedScoreInputs, SegmentedScoreInputs)
NextSegmentedScore == Similarity
SpecSegmentedScore == InitSegmentedScore /\ [][NextSegmentedScore]_vars

InitCompatibleAny == InitFn(AnyInputs, AnyInputs)
NextCompatibleAny == CompatibleAny
SpecCompatibleAny == InitCompatibleAny /\ [][NextCompatibleAny]_vars

InitEdit == InitFn(EditInputs, EditInputs)
NextEdit == EditDistance
SpecEdit == InitEdit /\ [][NextEdit]_vars

InitClassify == InitFn(ClassifyInputs, ClassifyInputs)
NextClassify == Classify
SpecClassify == InitClassify /\ [][NextClassify]_vars

\* match_award_ids and get_similarity_score on the same pairs.
SpecClassifyOrScore == InitClassify /\ [][Classify \/ Similarity]_vars

(***************************************************************************)
(* query_database: the SQL statements of lines 287-327                     *)
(***************************************************************************)
\* SQL NULL / pandas NA in a doi column; an absent award id is None.
NoDoi == "<NA>"
Null == "<NULL>"

Dois == {"10.1/x", "10.1/y"}
WorkOf == [d \in Dois |-> IF d = "10.1/x" THEN "W1" ELSE "W2"]
Funders == {"F1", "F2"}
\* The funder the run is asked for (-f/--funder-id).
funder_id == "F1"

QueryAwards == {<<"A", "-", "1">>, <<"a", "1">>, <<"B">>}

MaxInputRows == 2
MaxGrantRows == 2

InputRowValues == [doi : Dois \cup {NoDoi}, award_id : QueryAwards \cup {None}]
GrantRowValues ==
  {[work_id |-> WorkOf[d], doi |-> d, award_id |-> a, funder |-> f] :
     d \in Dois, a \in QueryAwards \cup {None}, f \in Funders}

RECURSIVE SubsetsUpTo(_, _)
SubsetsUpTo(S, n) ==
  IF n = 0 THEN {{}}
  ELSE LET smaller == SubsetsUpTo(S, n - 1)
       IN smaller \cup {s \cup {x} : s \in smaller, x \in S}

\* The functions registered in lines 271-274 are created without
\* null_handling, so a call with a NULL argument is not made and the
\* result is NULL. A SQL boolean is "true", "false" or Null.
awards_match_udf(a, b) ==
  IF a = None \/ b = None THEN Null
  ELSE IF awards_match(a, b, DefaultMatchTypes) THEN "true" ELSE "false"

get_match_type_udf(a, b) ==
  IF a = None \/ b = None THEN Null
  ELSE get_match_type(a, b, DefaultMatchTypes)

\* ROUND(s, 3) of a score: <<thousandths>>.
Round3(s) == <<(2000 * s.n + s.d) \div (2 * s.d)>>

\* ROUND(get_similarity_score(a, b), 3), or <<>> for NULL.
similarity_score_udf(a, b) ==
  IF a = None \/ b = None THEN <<>>
  ELSE Round3(get_similarity_score(a, b))

\* The registered functions as the connection holds them: one value per
\* pair of award ids of the tables.
RegisteredFunctions ==
  [a \in QueryAwards \cup {None}, b \in QueryAwards \cup {None} |->
     [awards_match |-> awards_match_udf(a, b),
      get_match_type |-> get_match_type_udf(a, b),
      get_similarity_score |-> similarity_score_udf(a, b)]]

entries_with_doi == {r \in input_df : r.doi # NoDoi}
entries_without_doi == {r \in input_df : r.doi = NoDoi}

\* The pairs (funder row, grants row) of
\* `input_with_doi i INNER JOIN grants g ON i.doi = g.doi AND g.funder = ?`.
JoinedPairs ==
  {p \in entries_with_doi \X grants :
     p[1].doi = p[2].doi /\ p[2].funder = funder_id}

\* Lines 287-299, less the award_id column dropped in line 364.
with_both_rows(conn) ==
  {[doi |-> p[1].doi,
    funder_award_id |-> p[1].award_id,
    openalex_award_id |-> p[2].award_id,
    work_id |-> p[2].work_id,
    match_type |-> conn[p[1].award_id, p[2].award_id].get_match_type,
    similarity_score |-> conn[p[1].award_id, p[2].award_id].get_similarity_score] :
   p \in {q \in JoinedPairs :
            conn[q[1].award_id, q[2].award_id].awards_match = "true"}}

\* Lines 301-315: NOT NULL is NULL, so the WHERE clause keeps a pair only
\* when awards_match returned false.
with_funder_only_rows(conn) ==
  {[doi |-> p[1].doi,
    award_id |-> p[1].award_id,
    funder_award_id |-> p[1].award_id,
    openalex_award_id |-> p[2].award_id,
    work_id |-> p[2].work_id,
    match_type |-> IF p[1].award_id = None \/ p[2].award_id = None
                   THEN "missing" ELSE "no_match",
    similarity_score |-> conn[p[1].award_id, p[2].award_id].get_similarity_score] :
   p \in {q \in JoinedPairs :
            conn[q[1].award_id, q[2].award_id].awards_match = "false"}}

\* Lines 317-327.
with_neither_rows ==
  {[doi |-> r.doi,
    award_id |-> r.award_id,
    work_id |-> IF \E g \in grants : g.doi = r.doi THEN WorkOf[r.doi] ELSE Null] :
   r \in {q \in entries_with_doi :
            ~\E g \in grants : q.doi = g.doi /\ g.funder = funder_id}}

\* The result dictionary of lines 363-371, less its fourth entry
\* (openalex_grants_not_in_funder), which is what
\* unified_award_id_matching returns and is modelled on its own below.
QueryResults(conn) ==
  [funder_work_and_grant_id_match_in_openalex |-> with_both_rows(conn),
   funder_work_matched_in_openalex_grant_id_differs |-> with_funder_only_rows(conn),
   funder_grants_not_in_openalex |-> with_neither_rows]

InitQuery ==
  /\ pc = "loaded"
  /\ input_df \in SubsetsUpTo(InputRowValues, MaxInputRows)
  /\ grants \in SubsetsUpTo(GrantRowValues, MaxGrantRows)
  /\ results = NoResult
  /\ IdleFn
  /\ IdlePass

\* query_database, lines 287-327: the three joins.
QueryDatabase ==
  /\ pc = "loaded"
  /\ pc' = "reconciled"
  /\ results' = QueryResults(RegisteredFunctions)
  /\ UNCHANGED <<input_df, grants, fnVars, passVars>>

NextQuery == QueryDatabase
SpecQuery == InitQuery /\ [][NextQuery]_vars

(***************************************************************************)
(* unified_award_id_matching                                               *)
(***************************************************************************)
\* The award ids of the funder rows and those of the bibliographic rows.
PassAwards == {<<"A", "-", "1">>, <<"a", "-", "1">>, <<"A", "1">>, <<"A", "-", "2">>}
PassOaAwards == {<<"A", "-", "1">>, <<"A", "1">>}

MaxOaRows == 2
MaxInputAwards == 2

RECURSIVE SeqsUpTo(_, _)
SeqsUpTo(S, n) ==
  IF n = 0 THEN {<<>>}
  ELSE LET shorter == SeqsUpTo(S, n - 1)
       IN shorter \cup {Append(s, x) : s \in shorter, x \in S}

\* Series.dropna().unique(): the non-null values in order of first
\* appearance.
RECURSIVE DropnaUnique(_)
DropnaUnique(col) ==
  IF col = <<>> THEN <<>>
  ELSE LET rest == DropnaUnique(SubSeq(col, 1, Len(col) - 1))
           last == col[Len(col)]
       IN IF last = None \/ last \in Range(rest) THEN rest
          ELSE Append(rest, last)

\* The match types of the bulk pass (line 192).
PassMatchTypes == {"substring", "normalized"}

\* The functions the pass calls, as tables over the award ids of the pass:
\* extract_segments (lines 173 and 186), awards_match with the match types
\* of line 192, and get_match_type with the rounded get_similarity_score
\* (lines 206 and 209).
PassExtractSegments == [a \in PassAwards |-> extract_segments(a)]

PassAwardsMatch ==
  [a \in PassAwards, b \in PassAwards |-> awards_match(a, b, PassMatchTypes)]

PassMatchDetails ==
  [a \in PassAwards, b \in PassAwards |->
     [match_type |-> get_match_type_udf(a, b),
      similarity_score |-> similarity_score_udf(a, b)]]

\* Line 174: the segments that are indexed.
IsIndexedSegment(seg) == Len(seg) > 2 \/ ~IsDigitStr(seg)

IndexedSegments(award) ==
  {seg \in Range(PassExtractSegments[award]) : IsIndexedSegment(seg)}

\* Lines 185-189: the union of the postings of the award's segments.
CandidatesOf(index, oa_award) ==
  UNION {index[seg] :
           seg \in Range(PassExtractSegments[oa_award]) \cap DOMAIN index}

InitPass ==
  /\ pc = "called"
  /\ oa_grants_df \in SeqsUpTo(PassOaAwards \cup {None}, MaxOaRows)
  /\ \E both \in SubsetsUpTo(PassAwards \cup {None}, MaxInputAwards) :
       /\ input_with_doi_df \in SUBSET both
       /\ input_without_doi_df \in SUBSET both
       /\ input_with_doi_df \cup input_without_doi_df = both
  /\ oa_awards = <<>>
  /\ all_input_awards = {}
  /\ indexed = {}
  /\ input_index = <<>>
  /\ pos = 0
  /\ candidates = {}
  /\ oa_to_input_matches = <<>>
  /\ matched_count = 0
  /\ overlap_rows = <<>>
  /\ IdleFn
  /\ IdleQuery

\* Mutant: lines 162-165 are missing, so the award ids of the rows
\* without a DOI are left out.
PassCollect_with_doi_only ==
  /\ pc = "called"
  /\ pc' = "build"
  /\ oa_awards' = DropnaUnique(oa_grants_df)
  /\ all_input_awards' = input_with_doi_df \ {None}
  /\ indexed' = {}
  /\ input_index' = <<>>
  /\ UNCHANGED <<oa_grants_df, input_with_doi_df, input_without_doi_df, pos,
                 candidates, oa_to_input_matches, matched_count, overlap_rows,
                 fnVars, queryVars>>

\* Lines 154-170: the unique non-null award ids of both sides and the
\* empty index.
PassCollect ==
  /\ pc = "called"
  /\ pc' = "build"
  /\ oa_awards' = DropnaUnique(oa_grants_df)
  /\ all_input_awards' = (input_with_doi_df \cup input_without_doi_df) \ {None}
  /\ indexed' = {}
  /\ input_index' = <<>>
  /\ UNCHANGED <<oa_grants_df, input_with_doi_df, input_without_doi_df, pos,
                 candidates, oa_to_input_matches, matched_count, overlap_rows,
                 fnVars, queryVars>>

\* Lines 171-175, one iteration: every indexed segment of one award.
\* all_input_awards is list(set(...)): the order is arbitrary.
PassIndexAward ==
  /\ pc = "build"
  /\ \E award \in all_input_awards \ indexed :
       LET segs == IndexedSegments(award)
       IN /\ input_index' =
               [seg \in DOMAIN input_index \cup segs |->
                  (IF seg \in DOMAIN input_index THEN input_index[seg] ELSE {})
                    \cup (IF seg \in segs THEN {award} ELSE {})]
          /\ indexed' = indexed \cup {award}
  /\ UNCHANGED <<pc, oa_grants_df, input_with_doi_df, input_without_doi_df,
                 oa_awards, all_input_awards, pos, candidates,
                 oa_to_input_matches, matched_count, overlap_rows,
                 fnVars, queryVars>>

\* Lines 177-179: the index is complete; the lookup loop starts.
PassStartLookup ==
  /\ pc = "build"
  /\ indexed = all_input_awards
  /\ pc' = "lookup"
  /\ pos' = 0
  /\ oa_to_input_matches' = <<>>
  /\ matched_count' = 0
  /\ UNCHANGED <<oa_grants_df, input_with_doi_df, input_without_doi_df,
                 oa_awards, all_input_awards, indexed, input_index,
                 candidates, overlap_rows, fnVars, queryVars>>

\* Mutant: lines 187-189 read input_index[seg] without the membership
\* test of line 188; input_index is a defaultdict(set), so a segment that
\* is no key becomes one, with an empty posting set.
PassCandidates_unguarded_read ==
  /\ pc = "lookup"
  /\ pos < Len(oa_awards)
  /\ pc' = "scan"
  /\ candidates' = CandidatesOf(input_index, oa_awards[pos + 1])
  /\ input_index' =
       [seg \in DOMAIN input_index
                  \cup Range(PassExtractSegments[oa_awards[pos + 1]]) |->
          IF seg \in DOMAIN input_index THEN input_index[seg] ELSE {}]
  /\ UNCHANGED <<oa_grants_df, input_with_doi_df, input_without_doi_df,
                 oa_awards, all_input_awards, indexed, pos,
                 oa_to_input_matches, matched_count, overlap_rows,
                 fnVars, queryVars>>

\* Lines 181-189: the candidate set of oa_awards[pos].
PassCandidates ==
  /\ pc = "lookup"
  /\ pos < Len(oa_awards)
  /\ pc' = "scan"
  /\ candidates' = CandidatesOf(input_index, oa_awards[pos + 1])
  /\ UNCHANGED <<oa_grants_df, input_with_doi_df, input_without_doi_df,
                 oa_awards, all_input_awards, indexed, input_index, pos,
                 oa_to_input_matches, matched_count, overlap_rows,
                 fnVars, queryVars>>

\* Mutant: the loop of lines 191-195 has no break, so every accepted
\* candidate is recorded and counted.
PassExamine_no_break ==
  /\ pc = "scan"
  /\ \E input_award \in candidates :
       /\ candidates' = candidates \ {input_award}
       /\ IF PassAwardsMatch[oa_awards[pos + 1], input_award]
          THEN /\ oa_to_input_matches' =
                    [k \in DOMAIN oa_to_input_matches \cup {oa_awards[pos + 1]} |->
                       IF k = oa_awards[pos + 1] THEN input_award
                       ELSE oa_to_input_matches[k]]
               /\ matched_count' = matched_count + 1
          ELSE UNCHANGED <<oa_to_input_matches, matched_count>>
  /\ UNCHANGED <<pc, pos, oa_grants_df, input_with_doi_df, input_without_doi_df,
                 oa_awards, all_input_awards, indexed, input_index,
                 overlap_rows, fnVars, queryVars>>

\* Lines 191-195, one iteration of the loop over the candidate set (a
\* set: the order is arbitrary): record the match and break, or go on.
PassExamine ==
  /\ pc = "scan"
  /\ \E input_award \in candidates :
       IF PassAwardsMatch[oa_awards[pos + 1], input_award]
       THEN /\ oa_to_input_matches' =
                 [k \in DOMAIN oa_to_input_matches \cup {oa_awards[pos + 1]} |->
                    IF k = oa_awards[pos + 1] THEN input_award
                    ELSE oa_to_input_matches[k]]
            /\ matched_count' = matched_count + 1
            /\ candidates' = {}
            /\ pos' = pos + 1
            /\ pc' = "lookup"
       ELSE /\ candidates' = candidates \ {input_award}
            /\ UNCHANGED <<oa_to_input_matches, matched_count, pos, pc>>
  /\ UNCHANGED <<oa_grants_df, input_with_doi_df, input_without_doi_df,
                 oa_awards, all_input_awards, indexed, input_index,
                 overlap_rows, fnVars, queryVars>>

\* Mutant: the loop over the candidates ends without a match and the
\* outer loop stays on the same award id.
PassNoMatch_same_award ==
  /\ pc = "scan"
  /\ candidates = {}
  /\ pc' = "lookup"
  /\ UNCHANGED <<oa_grants_df, input_with_doi_df, input_without_doi_df,
                 oa_awards, all_input_awards, indexed, input_index, pos,
                 candidates, oa_to_input_matches, matched_count,
                 overlap_rows, fnVars, queryVars>>

\* The loop over the candidates ends without a match.
PassNoMatch ==
  /\ pc = "scan"
  /\ candidates = {}
  /\ pc' = "lookup"
  /\ pos' = pos + 1
  /\ UNCHANGED <<oa_grants_df, input_with_doi_df, input_without_doi_df,
                 oa_awards, all_input_awards, indexed, input_index,
                 candidates, oa_to_input_matches, matched_count,
                 overlap_rows, fnVars, queryVars>>

\* Lines 199-211 for one row (oa_grants_df has no not_matched_by_doi
\* column, so every row is kept): the mapped funder award id and, for a
\* matched row, get_match_type and the rounded get_similarity_score.
OverlapRow(award_id) ==
  IF award_id \in DOMAIN oa_to_input_matches
  THEN LET matching == oa_to_input_matches[award_id]
           details == PassMatchDetails[award_id, matching]
       IN [award_id |-> award_id,
           matching_input_award_id |-> matching,
           has_award_overlap |-> TRUE,
           match_type |-> details.match_type,
           similarity_score |-> details.similarity_score]
  ELSE [award_id |-> award_id,
        matching_input_award_id |-> None,
        has_award_overlap |-> FALSE,
        match_type |-> Null,
        similarity_score |-> <<>>]

\* Lines 197-224: the lookup loop is over; the rows are returned.
PassFinish ==
  /\ pc = "lookup"
  /\ pos = Len(oa_awards)
  /\ pc' = "done"
  /\ overlap_rows' = [k \in 1..Len(oa_grants_df) |-> OverlapRow(oa_grants_df[k])]
  /\ UNCHANGED <<oa_grants_df, input_with_doi_df, input_without_doi_df,
                 oa_awards, all_input_awards, indexed, input_index, pos,
                 candidates, oa_to_input_matches, matched_count,
                 fnVars, queryVars>>

NextPass ==
  \/ PassCollect
  \/ PassIndexAward
  \/ PassStartLookup
  \/ PassCandidates
  \/ PassExamine
  \/ PassNoMatch
  \/ PassFinish

SpecPass == InitPass /\ [][NextPass]_vars

\* The function is sequential code without waiting: a step that can be
\* taken is taken.
SpecPassFair == SpecPass /\ WF_vars(NextPass)

(***************************************************************************)
(* Properties                                                              *)
(***************************************************************************)
IsNormalizedText(s) ==
  \A k \in 1..Len(s) : s[k] \in UpperSet \cup DigitSet

\* C1: normalize is total and idempotent: every input, the empty text and
\* the absent value included, yields a text of upper-case letters and
\* digits; normalizing that text again returns it unchanged; empty or
\* absent input yields the empty text.
C1_NormalizeIdempotentTotal ==
  /\ pc \in {"normalized", "renormalized"} =>
       /\ IsNormalizedText(out.value)
       /\ Falsy(arg1) => out.value = <<>>
  /\ pc = "renormalized" => out.again = out.value

C1_Witness ==
  /\ pc = "renormalized"
  /\ out.value # <<>>
  /\ out.value # arg1
  /\ Len(out.value) < Len(arg1)

\* C2: similarity is symmetric: the score of (arg1, arg2) equals the score
\* of (arg2, arg1).
C2_SimilaritySymmetric ==
  pc = "scored" => out.score = get_similarity_score(arg2, arg1)

Exact == [matched |-> TRUE, match_type |-> "exact"]
NoMatch == [matched |-> FALSE, match_type |-> "none"]

\* C3: for every enabled match-type subset, classify(x, x) is
\* (true, exact) for a non-absent x, classify(None, None) is (true, exact)
\* and a pair with exactly one absent identifier is (false, none).
C3_IdentityAndAbsence ==
  pc = "classified" =>
    /\ (arg1 = arg2) => out = Exact
    /\ ((arg1 = None) # (arg2 = None)) => out = NoMatch

C3_Witness ==
  /\ pc = "classified"
  /\ arg1 = None
  /\ arg2 = None
  /\ types = {}
  /\ out = Exact

\* One text contains the other, either way round.
EitherContains(x, y) == Contains(x, y) \/ Contains(y, x)

\* C4: with 'substring' enabled, both trimmed identifiers non-empty and
\* unequal, and the raw or the normalized form of one containing that of
\* the other, classify returns (true, substring).
C4_ContainmentIsSubstring ==
  (/\ pc = "classified"
   /\ "substring" \in types
   /\ arg1 # None
   /\ arg2 # None
   /\ Strip(arg1) # <<>>
   /\ Strip(arg2) # <<>>
   /\ Strip(arg1) # Strip(arg2)
   /\ \/ EitherContains(arg1, arg2)
      \/ EitherContains(Strip(arg1), Strip(arg2))
      \/ EitherContains(normalize_award_id(arg1), normalize_award_id(arg2)))
  => out = [matched |-> TRUE, match_type |-> "substring"]

C4_Witness ==
  /\ pc = "classified"
  /\ out = [matched |-> TRUE, match_type |-> "substring"]
  /\ arg1 # None
  /\ arg2 # None
  /\ ~EitherContains(Strip(arg1), Strip(arg2))
  /\ normalize_award_id(arg1) # <<>>
  /\ normalize_award_id(arg2) # <<>>

\* C5: two purely numeric segments are compatible exactly when they are
\* equal as integers, or one has length 4, the other length 2 and the
\* 4-digit one ends with the 2-digit one.
YearRule(long, short) == Len(long) = 4 /\ Len(short) = 2 /\ EndsWith(long, short)

C5_NumericCompatibility ==
  (pc = "compatible" /\ IsDigitStr(arg1) /\ IsDigitStr(arg2)) =>
    (out.value <=> \/ IntOf(arg1) = IntOf(arg2)
                   \/ YearRule(arg1, arg2)
                   \/ YearRule(arg2, arg1))

C5_Witness ==
  /\ pc = "compatible"
  /\ IsDigitStr(arg1)
  /\ IsDigitStr(arg2)
  /\ IntOf(arg1) # IntOf(arg2)
  /\ YearRule(arg2, arg1)
  /\ out.value

\* C6: for a pair that passes the empty and length-difference checks, if
\* the aligned segments at position 0, or at the last position of either
\* sequence, are both purely numeric and incompatible, structured_match
\* returns is_match = false with confidence = (compatible aligned pairs
\* before the first such position) / max(segment counts).
BoundaryMismatches(s1, s2) ==
  {k \in 0..(Min2(Len(s1), Len(s2)) - 1) :
     /\ k = 0 \/ k = Len(s1) - 1 \/ k = Len(s2) - 1
     /\ IsDigitStr(s1[k + 1])
     /\ IsDigitStr(s2[k + 1])
     /\ ~are_segments_compatible(s1[k + 1], s2[k + 1])}

CompatibleBefore(s1, s2, p) ==
  Cardinality({k \in 0..(p - 1) : are_segments_compatible(s1[k + 1], s2[k + 1])})

C6_BoundaryRule ==
  pc = "structured" =>
    LET s1 == StructSegments[arg1]
        s2 == StructSegments[arg2]
        B == BoundaryMismatches(s1, s2)
        p == CHOOSE k \in B : \A m \in B : k <= m
    IN (/\ s1 # <<>>
        /\ s2 # <<>>
        /\ Abs(Len(s1) - Len(s2)) <= SegmentDiffTolerance
        /\ B # {})
       => /\ out.is_match = FALSE
          /\ out.confidence.n * Max2(Len(s1), Len(s2))
               = CompatibleBefore(s1, s2, p) * out.confidence.d

\* "2-A-1" against "1-A-1": the leading numbers differ, the rest aligns.
C6_Witness ==
  /\ pc = "structured"
  /\ LET s1 == extract_segments(arg1)
         s2 == extract_segments(arg2)
     IN /\ Len(s1) = 3
        /\ Len(s2) = 3
        /\ BoundaryMismatches(s1, s2) = {0}
        /\ are_segments_compatible(s1[2], s2[2])
        /\ are_segments_compatible(s1[3], s2[3])
  /\ out = [is_match |-> FALSE, confidence |-> Frac(0, 1)]

\* The grants row g has a row in the rows of one result category.
InCategory(rows, g) ==
  \E row \in rows :
    /\ row.work_id = g.work_id
    /\ row.doi = g.doi
    /\ row.openalex_award_id = g.award_id

\* C7: after query_database, every grants row of the chosen funder whose
\* DOI is the DOI of a funder row and whose award id is not NULL has a
\* row in exactly one of funder_work_and_grant_id_match_in_openalex and
\* funder_work_matched_in_openalex_grant_id_differs.
C7_CategoryCompleteness ==
  pc = "reconciled" =>
    \A g \in grants :
      (/\ g.funder = funder_id
       /\ g.award_id # None
       /\ \E r \in entries_with_doi : r.doi = g.doi)
      => (InCategory(results.funder_work_and_grant_id_match_in_openalex, g)
            # InCategory(results.funder_work_matched_in_openalex_grant_id_differs, g))

\* C8: when every award id of the grants rows has the normalized form of
\* some funder award id, unified_award_id_matching ends with a match
\* recorded for every one of them.
C8_PassLosesNoVariant ==
  (/\ pc = "done"
   /\ \A oa \in Range(oa_awards) :
        \E f \in all_input_awards :
          normalize_award_id(oa) = normalize_award_id(f))
  => \A oa \in Range(oa_awards) : oa \in DOMAIN oa_to_input_matches

\* C9: levenshtein_distance(s, s) = 0, so identical normalized texts
\* have the edit-distance score 1; two non-empty texts of equal length
\* that share no character have distance equal to that length and the
\* score 0.
C9_EditDistanceBounds ==
  pc = "edit" =>
    LET n1 == normalize_award_id(Strip(arg1))
        n2 == normalize_award_id(Strip(arg2))
    IN /\ n1 = n2 =>
            /\ out.dist = 0
            /\ n1 # <<>> => out.scores = <<Frac(1, 1)>>
       /\ (/\ n1 # <<>>
           /\ Len(n1) = Len(n2)
           /\ Range(n1) \cap Range(n2) = {})
          => /\ out.dist = Len(n1)
             /\ out.scores = <<Frac(0, 1)>>

C9_Witness ==
  /\ pc = "edit"
  /\ Len(arg1) = MaxEditLen
  /\ Len(arg2) = MaxEditLen
  /\ Range(normalize_award_id(arg1)) \cap Range(normalize_award_id(arg2)) = {}
  /\ Cardinality(Range(arg1)) > 1
  /\ out.scores = <<Frac(0, 1)>>

\* C10: similarity returns a value in [0, 1], and so are the structured
\* confidence and each of the signals (containment bonus, sequence
\* ratio, edit-distance score, longest-common-substring score).
InUnit(x) == x.d > 0 /\ 0 <= x.n /\ x.n <= x.d

C10_ScoreInUnitInterval ==
  pc = "scored" =>
    /\ InUnit(out.score)
    /\ (arg1 # None /\ arg2 # None) =>
         LET id1_str == Strip(arg1)
             id2_str == Strip(arg2)
             id1_norm == normalize_award_id(id1_str)
             id2_norm == normalize_award_id(id2_str)
             scores == SignalScores(id1_norm, id2_norm)
         IN /\ InUnit(structured_match(id1_str, id2_str).confidence)
            /\ id1_norm # id2_norm =>
                 \A k \in 1..Len(scores) : InUnit(scores[k])

\* The cap of line 345 decides the score: "A-1" against "A-b".
C10_Witness ==
  /\ pc = "scored"
  /\ arg1 # None
  /\ arg2 # None
  /\ LET conf == structured_match(Strip(arg1), Strip(arg2)).confidence
         scores == SignalScores(normalize_award_id(Strip(arg1)),
                                normalize_award_id(Strip(arg2)))
     IN /\ FracLt(Frac(0, 1), conf)
        /\ Len(scores) = 4
        /\ out.score = FracAdd(conf, Frac(1, 10))
        /\ FracLt(out.score, FracMaxSeq(scores))

\* Both identifiers are None, or neither is and the trimmed texts are
\* equal.
ExactlyEqual(x, y) ==
  IF x = None \/ y = None THEN x = None /\ y = None
  ELSE Strip(Str(x)) = Strip(Str(y))

\* C11: get_similarity_score returns 1.0 exactly when both identifiers
\* are None or their trimmed texts are equal; any other pair scores
\* strictly below 1.0, and 0.95 when the normalized forms are equal.
C11_ExactScoreDistinguishable ==
  pc = "scored" =>
    /\ (out.score = Frac(1, 1)) <=> ExactlyEqual(arg1, arg2)
    /\ ~ExactlyEqual(arg1, arg2) => FracLt(out.score, Frac(1, 1))
    /\ (/\ arg1 # None
        /\ arg2 # None
        /\ ~ExactlyEqual(arg1, arg2)
        /\ normalize_award_id(Strip(arg1)) = normalize_award_id(Strip(arg2)))
       => out.score = Frac(19, 20)

\* C12: the match_type match_award_ids returns is 'exact', a member of
\* match_types or None; with match_types empty a pair matches only when
\* both identifiers are None or the trimmed texts are equal; a pair that
\* matches under match_types matches under every larger set.
C12_MatchTypesHonoured ==
  pc = "classified" =>
    /\ out.match_type \in {"exact", "none"} \cup types
    /\ out.matched <=> out.match_type # "none"
    /\ types = {} => (out.matched <=> ExactlyEqual(arg1, arg2))
    /\ out.matched =>
         \A S \in SUBSET MatchTypes :
           types \subseteq S => match_award_ids(arg1, arg2, S).matched

\* A pair that only the fuzzy rule reaches when it is the one enabled
\* type, and that the substring rule takes when all three are enabled.
C12_Witness ==
  /\ pc = "classified"
  /\ types = {"fuzzy"}
  /\ out = [matched |-> TRUE, match_type |-> "fuzzy"]
  /\ match_award_ids(arg1, arg2, MatchTypes).match_type = "substring"

\* The confidence of lines 91-96 and 114: 0 when either identifier has no
\* segment or the segment counts differ by more than 2, otherwise the
\* compatible aligned pairs over the larger segment count.
AlignedConfidence(s1, s2) ==
  IF s1 = <<>> \/ s2 = <<>> \/ Abs(Len(s1) - Len(s2)) > 2
  THEN Frac(0, 1)
  ELSE Frac(CompatibleBefore(s1, s2, Min2(Len(s1), Len(s2))),
            Max2(Len(s1), Len(s2)))

\* The loop of structured_match meets a numeric mismatch at a boundary
\* position.
BoundaryReturn(s1, s2) ==
  /\ s1 # <<>>
  /\ s2 # <<>>
  /\ Abs(Len(s1) - Len(s2)) <= 2
  /\ BoundaryMismatches(s1, s2) # {}

\* C13: for every pair, structured_match returns is_match = true iff the
\* returned confidence is at least 0.75, the confidence being 0 when
\* either identifier has no segment or the counts differ by more than 2
\* and otherwise (compatible aligned pairs) / max(segment counts).
C13_IsMatchIffCutoff ==
  pc = "structured" =>
    /\ out.is_match <=> FracLeq(Frac(3, 4), out.confidence)
    /\ out.confidence = AlignedConfidence(extract_segments(arg1),
                                          extract_segments(arg2))

\* C13, amended: the equivalence and the confidence formula hold for the
\* pairs without a numeric mismatch at a boundary position; with one,
\* is_match is false and the confidence is at most the formula's value.
C13_IsMatchIffCutoffOffBoundary ==
  pc = "structured" =>
    LET s1 == StructSegments[arg1]
        s2 == StructSegments[arg2]
    IN IF BoundaryReturn(s1, s2)
       THEN /\ out.is_match = FALSE
            /\ FracLeq(out.confidence, AlignedConfidence(s1, s2))
       ELSE /\ out.is_match <=> FracLeq(Frac(3, 4), out.confidence)
            /\ out.confidence = AlignedConfidence(s1, s2)

\* Three of four aligned pairs compatible and no boundary return: the
\* confidence is exactly the cutoff and the pair matches.
C13_Witness ==
  /\ pc = "structured"
  /\ Len(extract_segments(arg1)) = 4
  /\ Len(extract_segments(arg2)) = 4
  /\ ~BoundaryReturn(extract_segments(arg1), extract_segments(arg2))
  /\ out = [is_match |-> TRUE, confidence |-> Frac(3, 4)]

\* The threshold of lines 235-238: 0.95 when both normalized forms hold a
\* digit, 0.90 (the default) otherwise.
FuzzyThreshold(x, y) ==
  IF /\ HasDigit(normalize_award_id(Strip(Str(x))))
     /\ HasDigit(normalize_award_id(Strip(Str(y))))
  THEN Frac(19, 20)
  ELSE Frac(9, 10)

\* C14: match_award_ids returns (True, 'fuzzy') only for pairs whose
\* get_similarity_score is at least the fuzzy threshold.
C14_FuzzyAboveThreshold ==
  (pc = "classified" /\ out = [matched |-> TRUE, match_type |-> "fuzzy"])
  => FracLeq(FuzzyThreshold(arg1, arg2), get_similarity_score(arg1, arg2))

\* C15: the matching primitives return a value for every input, absent,
\* empty, blank, punctuation or any text, and never raise: here
\* are_segments_compatible, whose integer parses must be applied to
\* decimal digit strings only.
C15_CompatibleTotal ==
  pc = "compatible_any" => "raised" \notin DOMAIN out

\* The pass is in or past its lookup loop.
InLookup == pc \in {"lookup", "scan", "done"}

\* C16: in every state of the lookup loop each entry of
\* oa_to_input_matches maps a bibliographic award id to a funder award id
\* that shares an indexed segment with it and that match_award_ids
\* accepts under {substring, normalized}; an award id whose candidates
\* are being examined has no entry yet, the entries belong to award ids
\* the loop has passed, and matched_count is the number of entries.
C16_PassSound ==
  InLookup =>
    /\ \A oa \in DOMAIN oa_to_input_matches :
         LET input_award == oa_to_input_matches[oa]
         IN /\ input_award \in all_input_awards
            /\ Range(extract_segments(oa)) \cap IndexedSegments(input_award) # {}
            /\ match_award_ids(oa, input_award, {"substring", "normalized"}).matched
    /\ DOMAIN oa_to_input_matches \subseteq {oa_awards[k] : k \in 1..pos}
    /\ pc = "scan" => oa_awards[pos + 1] \notin DOMAIN oa_to_input_matches
    /\ matched_count = Cardinality(DOMAIN oa_to_input_matches)

\* A match was recorded while another candidate that match_award_ids
\* accepts too was still waiting.
C16_Witness ==
  /\ pc = "lookup"
  /\ pos = 1
  /\ matched_count = 1
  /\ oa_awards[1] \in DOMAIN oa_to_input_matches
  /\ \E other \in CandidatesOf(input_index, oa_awards[1]) :
       /\ other # oa_to_input_matches[oa_awards[1]]
       /\ match_award_ids(oa_awards[1], other, {"substring", "normalized"}).matched

\* The unique non-null award ids of the funder rows, with a DOI or
\* without one.
FunderAwards == (input_with_doi_df \cup input_without_doi_df) \ {None}

C18_IndexReadOnly ==
  [][(pc \in {"lookup", "scan"}) => (input_index' = input_index)]_vars

\* The candidates of an award id are being examined after a lookup that
\* found one of its segments in the index and another one not.
C18_Witness ==
  /\ pc = "scan"
  /\ candidates # {}
  /\ \E seg \in Range(extract_segments(oa_awards[pos + 1])) :
       seg \notin DOMAIN input_index
  /\ \E seg \in Range(extract_segments(oa_awards[pos + 1])) :
       seg \in DOMAIN input_index

\* The digit runs of two segments are equal as integers, run by run, as
\* far as both have one.
SameRunsAsIntegers(seg1, seg2) ==
  LET n1 == FindDigitRuns(seg1)
      n2 == FindDigitRuns(seg2)
  IN \A k \in 1..Min2(Len(n1), Len(n2)) : IntOf(n1[k]) = IntOf(n2[k])

\* C19: two segments that are not purely numeric, whose digit-stripped
\* cores are identical and that both contain digit runs, are compatible
\* only if their digit runs are equal as integers.
C19_AlphaCoreGuard ==
  (/\ pc = "compatible"
   /\ ~IsDigitStr(arg1)
   /\ ~IsDigitStr(arg2)
   /\ StripDigits(arg1) = StripDigits(arg2)
   /\ FindDigitRuns(arg1) # <<>>
   /\ FindDigitRuns(arg2) # <<>>
   /\ out.value = TRUE)
  => SameRunsAsIntegers(arg1, arg2)

\* C20: unified_award_id_matching runs to completion: the index build and
\* the lookup loop end; the lookup loop moves over oa_awards one award id
\* at a time, never back and never skipping one, so each is examined
\* once; at the end the loop has passed every award id and every row is
\* either matched to a funder award id or left without one.
C20_PassCompletes ==
  /\ <>(pc = "done")
  /\ [][(pc \in {"lookup", "scan"}) =>
          /\ oa_awards' = oa_awards
          /\ pos' = (IF pc = "scan" /\ pc' = "lookup" THEN pos + 1 ELSE pos)
          /\ (pc = "lookup" /\ pc' = "scan") => pos < Len(oa_awards)]_vars
  /\ [](pc = "done" =>
          /\ pos = Len(oa_awards)
          /\ indexed = all_input_awards
          /\ Len(overlap_rows) = Len(oa_grants_df)
          /\ \A k \in 1..Len(overlap_rows) :
               overlap_rows[k].has_award_overlap
                 = (overlap_rows[k].award_id \in DOMAIN oa_to_input_matches))

\* The pass is over with two award ids examined, one matched and one not.
C20_Witness ==
  /\ pc = "done"
  /\ pos = 2
  /\ matched_count = 1
  /\ \E k \in 1..Len(overlap_rows) : overlap_rows[k].has_award_overlap
  /\ \E k \in 1..Len(overlap_rows) :
       /\ overlap_rows[k].award_id # None
       /\ ~overlap_rows[k].has_award_overlap

(***************************************************************************)
(* C21: numeric mismatches at aligned positions                            *)
(***************************************************************************)
\* The aligned positions (0-based) whose two segments are purely numeric
\* and incompatible.
NumericMismatches(s1, s2) ==
  {k \in 0..(Min2(Len(s1), Len(s2)) - 1) :
     /\ IsDigitStr(s1[k + 1])
     /\ IsDigitStr(s2[k + 1])
     /\ ~are_segments_compatible(s1[k + 1], s2[k + 1])}

\* The loop of structured_match is entered: both identifiers have a
\* segment and the counts differ by at most 2.
Aligned(s1, s2) ==
  s1 # <<>> /\ s2 # <<>> /\ Abs(Len(s1) - Len(s2)) <= 2

C22_NormalizedOnlyWithoutSubstring ==
  pc = "classified" =>
    /\ "substring" \in types => out.match_type # "normalized"
    /\ out.match_type = "normalized" =>
         /\ out.matched
         /\ "substring" \notin types
         /\ "normalized" \in types
         /\ arg1 # None /\ arg2 # None
         /\ Strip(arg1) # <<>> /\ Strip(arg2) # <<>>
         /\ normalize_award_id(Strip(arg1)) = normalize_award_id(Strip(arg2))

\* Two different texts with equal normalized forms, neither containing
\* the other, classified with both 'substring' and 'normalized' enabled:
\* the pair is accepted as 'substring'.
C22_Witness ==
  /\ pc = "classified"
  /\ {"substring", "normalized"} \subseteq types
  /\ arg1 # None /\ arg2 # None
  /\ ~Contains(Strip(arg1), Strip(arg2))
  /\ ~Contains(Strip(arg2), Strip(arg1))
  /\ check_normalized_match(Strip(arg1), Strip(arg2))
  /\ out = [matched |-> TRUE, match_type |-> "substring"]

(***************************************************************************)
(* C23: the recorded match and the candidate order                         *)
(***************************************************************************)
\* The candidates of a bibliographic award id that awards_match accepts.
\* The candidate set is a Python set, iterated in an arbitrary order, and
\* the loop records the first accepted candidate it meets: each accepted
\* candidate is the recorded one for some order.
AcceptedCandidates(award) ==
  {c \in CandidatesOf(input_index, award) : PassAwardsMatch[award, c]}

\* C23: for fixed inputs the result recorded for a bibliographic award id
\* is the same for every order in which the candidate set is iterated:
\* whether it has an award overlap, and the funder award id and the
\* match_type recorded for it, which are those of every accepted
\* candidate.
C23_PassDeterministic ==
  pc = "done" =>
    \A k \in 1..Len(overlap_rows) :
      LET row == overlap_rows[k]
      IN row.award_id # None =>
           /\ row.has_award_overlap = (AcceptedCandidates(row.award_id) # {})
           /\ \A c \in AcceptedCandidates(row.award_id) :
                /\ row.matching_input_award_id = c
                /\ row.match_type = PassMatchDetails[row.award_id, c].match_type

(***************************************************************************)
(* C24: identifiers without alphanumeric content                           *)
(***************************************************************************)
\* A text whose normalized form is empty: empty, whitespace only or
\* punctuation only.
EmptyNormalized(x) == x # None /\ normalize_award_id(x) = <<>>

NonEmptyNormalized(x) == x # None /\ normalize_award_id(x) # <<>>

\* C24: an identifier whose normalized form is empty is treated like an
\* absent one: paired with an identifier whose normalized form is not
\* empty, match_award_ids returns (False, None) for every match_types and
\* get_similarity_score returns 0.0.
C24_EmptyNormalizedLikeAbsent ==
  (\/ EmptyNormalized(arg1) /\ NonEmptyNormalized(arg2)
   \/ EmptyNormalized(arg2) /\ NonEmptyNormalized(arg1))
    => /\ pc = "classified" => out = [matched |-> FALSE, match_type |-> "none"]
       /\ pc = "scored" => out.score = Frac(0, 1)

====
